---- MODULE Spec2Model ----
(***************************************************************************)
(* EduStudy (src/main.py): the search aggregation pipeline and the saved   *)
(* list of a session.                                                      *)
(*                                                                         *)
(* Text is a sequence of one-character strings, so that lower() and        *)
(* strip() are computed and not assumed.  A record's year is tagged: an    *)
(* integer, the sentinel the code stores when the year is absent, or a     *)
(* non-integer value passed through from the remote.                       *)
(*                                                                         *)
(* Specifications:                                                         *)
(*   SpecFetch / FairSpecFetch  one call of search_papers_api, one step    *)
(*                              per outbound request;                      *)
(*   SpecCombined               search_combined, one step per source;      *)
(*   Spec                       a session of main(): searches, saves,      *)
(*                              clearing and exports;                      *)
(*   SpecScholar, SpecParse,    one call of search_google_scholar,         *)
(*   SpecCsv, SpecBibtex        parse_search_query, create_csv_data and    *)
(*                              format_bibtex_citation, over every         *)
(*                              argument of a bounded set.                 *)
(***************************************************************************)
EXTENDS Integers, Sequences, FiniteSets, TLC

VARIABLES
    api,                \* the frame of the running call of search_papers_api
    pc,                 \* position of the session's script run (main)
    year_range,         \* the sidebar's year slider, <<min, max>>
    fetched,            \* what search_papers_api returned to main
    results,            \* main's local `results`, as presented
    saved_papers,       \* st.session_state.saved_papers
    last_search_query,  \* st.session_state.last_search_query
    op,                 \* the last thing the session did
    exported,           \* the rows of the last CSV export of this run
    cpc,                \* position inside search_combined
    cquery,             \* search_combined's `query`
    GOOGLE_SCHOLAR_AVAILABLE,
    semantic_papers,    \* search_combined's locals
    source_a,           \* how the call of search_papers_api ended
    google,             \* the call of search_google_scholar, as it ended
    all_papers,
    unique_papers,
    combined,           \* the list search_combined returned
    fn_pc,              \* a function called on its own: "called", "returned"
    fn_args,            \* its arguments
    fn_value            \* what it returned

vars == <<api, pc, year_range, fetched, results, saved_papers, last_search_query, op,
          exported, cpc, cquery, GOOGLE_SCHOLAR_AVAILABLE, semantic_papers,
          source_a, google, all_papers, unique_papers, combined,
          fn_pc, fn_args, fn_value>>

sessionVars == <<pc, year_range, fetched, results, saved_papers, last_search_query, op,
                 exported>>
combinedVars == <<cpc, cquery, GOOGLE_SCHOLAR_AVAILABLE, semantic_papers,
                  source_a, google, all_papers, unique_papers, combined>>

callVars == <<fn_pc, fn_args, fn_value>>

----------------------------------------------------------------------------
(* Bounds of the model *)

MaxResp == 2        \* records in one response of the REST backend
MaxStream == 2      \* items in one result stream of the scrape backend
MaxSaved == 2       \* length of the saved list
Limit == 2          \* the `limit` handed to search_google_scholar

----------------------------------------------------------------------------
(* Text *)

RECURSIVE SeqsUpTo(_, _)
SeqsUpTo(S, n) ==
    IF n = 0 THEN {<<>>}
    ELSE LET shorter == SeqsUpTo(S, n - 1)
         IN  shorter \cup {Append(s, x) : s \in {t \in shorter : Len(t) = n - 1}, x \in S}

\* str.lower(), on the alphabet of the model
Uppers ==
    <<"A", "B", "C", "D", "E", "F", "G", "H", "I", "J", "K", "L", "M",
      "N", "O", "P", "Q", "R", "S", "T", "U", "V", "W", "X", "Y", "Z">>

Lowers ==
    <<"a", "b", "c", "d", "e", "f", "g", "h", "i", "j", "k", "l", "m",
      "n", "o", "p", "q", "r", "s", "t", "u", "v", "w", "x", "y", "z">>

LowerOf ==
    [c \in {Uppers[i] : i \in 1..Len(Uppers)} |->
        Lowers[CHOOSE i \in 1..Len(Uppers) : Uppers[i] = c]]

LowerChar(c) == IF c \in DOMAIN LowerOf THEN LowerOf[c] ELSE c

Lower(s) == [i \in 1..Len(s) |-> LowerChar(s[i])]

IsSpace(c) == c = " "

RECURSIVE LStrip(_)
LStrip(s) == IF s # <<>> /\ IsSpace(Head(s)) THEN LStrip(Tail(s)) ELSE s

RECURSIVE RStrip(_)
RStrip(s) ==
    IF s # <<>> /\ IsSpace(s[Len(s)]) THEN RStrip(SubSeq(s, 1, Len(s) - 1)) ELSE s

\* str.strip()
Strip(s) == LStrip(RStrip(s))

\* the titles the remotes answer with
T_AI == <<"A", "I">>
T_ai_sp == <<"a", "i", " ">>
T_b == <<"b">>
T_c == <<"c">>
T_blank == <<" ">>
T_none == <<>>                      \* title missing (None or '')
TitleUnknown == <<"?">>             \* the placeholder for a missing title

YearUnknown == [kind |-> "unknown", v |-> 0]
IntYear(y) == [kind |-> "int", v |-> y]
StrYear(y) == [kind |-> "str", v |-> y]      \* e.g. the text "2020"
NoYear == [kind |-> "none", v |-> 0]         \* the field is null or absent

----------------------------------------------------------------------------
(* Relevance filter and record construction *)

education_terms ==
    {"education", "learning", "teaching", "student", "school", "classroom",
     "pedagogy", "curriculum", "instruction"}

\* any(term in title_abstract ...); the titles of the model hold no term, so
\* the abstract (a sequence of words) decides
IsRelevant(paper) == \E i \in 1..Len(paper.abstract) : paper.abstract[i] \in education_terms

\* the dict built for an accepted record of the REST backend
ProcessedPaper(paper) ==
    [title |-> IF paper.title # <<>> THEN paper.title ELSE TitleUnknown,
     year |-> IF paper.year.kind # "none" THEN paper.year ELSE YearUnknown,
     citation_count |-> paper.citationCount,
     source |-> "Semantic Scholar"]

Malformed == [malformed |-> TRUE]   \* an entry whose processing raises (e.g. null)

RawPapers(titles, cites, years, abstracts) ==
    [malformed : {FALSE}, title : titles, citationCount : cites, year : years,
     abstract : abstracts]

\* the loop over data['data']: the records accepted so far, and whether an
\* entry raised
RECURSIVE ParseData(_, _)
ParseData(items, papers) ==
    IF items = <<>> THEN [papers |-> papers, fault |-> FALSE]
    ELSE LET paper == Head(items)
         IN  IF paper.malformed THEN [papers |-> papers, fault |-> TRUE]
             ELSE ParseData(Tail(items),
                            IF IsRelevant(paper)
                            THEN Append(papers, ProcessedPaper(paper))
                            ELSE papers)

----------------------------------------------------------------------------
(* search_papers_api: the retry loop *)

max_retries == 3
retry_delay == 2
pacing_delay == 1

\* what a call does, in order: time.sleep(s), the n-th requests.get,
\* st.warning, st.error and st.info (about: "rate_limit", "connection",
\* "search")
Sleep(s) == [ev |-> "sleep", s |-> s]
Request(n) == [ev |-> "request", n |-> n]
Warning(about) == [ev |-> "warning", about |-> about]
Error(about) == [ev |-> "error", about |-> about]
Info(about) == [ev |-> "info", about |-> about]

RECURSIVE Pow2(_)
Pow2(n) == IF n = 0 THEN 1 ELSE 2 * Pow2(n - 1)

\* a retry without backoff
RateLimitWaitFixed(attempt) == retry_delay
\* wait_time = retry_delay * (2 ** attempt)
RateLimitWait(attempt) == retry_delay * Pow2(attempt)

\* a connectivity retry that backs off like the rate-limit retry
ConnectionWaitBackoff(attempt) == retry_delay * Pow2(attempt)
\* time.sleep(retry_delay)
ConnectionWait(attempt) == retry_delay

\* answers: what the remote answered to each request so far
ApiIdle ==
    [pc |-> "idle", attempt |-> 0, trace |-> <<>>, answers |-> <<>>,
     papers |-> <<>>, ret |-> <<>>, fault |-> FALSE]

\* entry of search_papers_api, up to the loop
ApiCall(query) ==
    IF query = ""
    THEN [ApiIdle EXCEPT !.pc = "returned"]
    ELSE [ApiIdle EXCEPT !.pc = "request", !.trace = <<Sleep(pacing_delay)>>]

Return(f, trace, papers, ret, fault) ==
    [f EXCEPT !.pc = "returned", !.trace = trace, !.papers = papers, !.ret = ret,
              !.fault = fault]

Retry(f, trace) == [f EXCEPT !.attempt = f.attempt + 1, !.trace = trace]

Answered(f, o) == [f EXCEPT !.answers = Append(f.answers, o.kind)]

\* one iteration of `for attempt in range(max_retries)`; o is what the remote
\* answered to this iteration's request: status 429, a RequestException (no
\* connection, a timeout, an error status raised by raise_for_status), or a
\* body whose entries are processed
ApiStep(f0, o) ==
    LET f == Answered(f0, o)
        sent == Append(f.trace, Request(f.attempt + 1))
    IN  CASE o.kind = "rate_limit" ->
                 IF f.attempt < max_retries - 1
                 THEN Retry(f, sent \o <<Warning("rate_limit"), Sleep(RateLimitWait(f.attempt))>>)
                 ELSE Return(f, Append(sent, Error("rate_limit")), <<>>, <<>>, FALSE)
          [] o.kind = "connection" ->
                 IF f.attempt < max_retries - 1
                 THEN Retry(f, sent \o <<Warning("connection"), Sleep(ConnectionWait(f.attempt))>>)
                 ELSE Return(f, sent \o <<Error("connection"), Info("connection")>>,
                             <<>>, <<>>, FALSE)
          [] OTHER ->
                 LET r == ParseData(o.data, <<>>)
                 IN  IF r.fault
                     THEN Return(f, Append(sent, Error("search")), r.papers, <<>>, TRUE)
                     ELSE Return(f, sent, r.papers, r.papers, FALSE)

RateLimited == [kind |-> "rate_limit", data |-> <<>>]
ConnectionFailure == [kind |-> "connection", data |-> <<>>]
Answer(data) == [kind |-> "ok", data |-> data]

\* the call run to its return, given the remote's answer to each request
RECURSIVE RunApi(_, _)
RunApi(f, outcomes) ==
    IF f.pc # "request" \/ outcomes = <<>> THEN f
    ELSE RunApi(ApiStep(f, Head(outcomes)), Tail(outcomes))

----------------------------------------------------------------------------
(* search_google_scholar *)

max_timeout == 3

BadItem == [malformed |-> TRUE]     \* an item whose processing raises

\* int(year) if str(year).isdigit() else the sentinel
GsYear(year) == IF year.kind \in {"int", "str"} THEN IntYear(year.v) ELSE YearUnknown

\* the dict built for an accepted item of the scrape backend
GsProcessedPaper(paper) ==
    [title |-> IF paper.title # <<>> THEN paper.title ELSE TitleUnknown,
     year |-> GsYear(paper.year),
     citation_count |-> paper.citationCount,
     source |-> "Google Scholar"]

GsNotCalled ==
    [queried |-> FALSE, papers |-> <<>>, count |-> 0, timeout_count |-> 0,
     handled |-> 0, warnings |-> 0, ended |-> "none", ret |-> <<>>]

GsReturn(g, ended) ==
    [g EXCEPT !.ended = ended,
              !.ret = IF ended \in {"blocked", "error"} THEN <<>> ELSE g.papers,
              !.warnings = IF ended \in {"blocked", "error", "timeouts"}
                           THEN g.warnings + 1 ELSE g.warnings]

\* the loop over the result stream; `ending` is how the stream ends after its
\* items: "end" (exhausted), "blocked" or "error" (the iterator raises);
\* handled counts the items that reached the try block
RECURSIVE GsLoop(_, _, _, _)
GsLoop(items, ending, limit, g) ==
    IF items = <<>> THEN GsReturn(g, ending)
    ELSE IF g.count >= limit THEN GsReturn(g, "limit")
    ELSE IF g.timeout_count >= max_timeout THEN GsReturn(g, "timeouts")
    ELSE LET paper == Head(items)
         IN  IF paper.malformed
             THEN GsLoop(Tail(items), ending, limit,
                         [g EXCEPT !.timeout_count = g.timeout_count + 1,
                                   !.handled = g.handled + 1,
                                   !.warnings = g.warnings + 1])
             ELSE IF IsRelevant(paper)
             THEN GsLoop(Tail(items), ending, limit,
                         [g EXCEPT !.papers = Append(g.papers, GsProcessedPaper(paper)),
                                   !.handled = g.handled + 1,
                                   !.count = g.count + 1])
             ELSE GsLoop(Tail(items), ending, limit, [g EXCEPT !.handled = g.handled + 1])

SearchGoogleScholar(query, limit, items, ending) ==
    IF query = "" THEN [GsNotCalled EXCEPT !.queried = TRUE, !.ended = "no_query"]
    ELSE GsLoop(items, ending, limit, [GsNotCalled EXCEPT !.queried = TRUE])

----------------------------------------------------------------------------
(* search_combined: merge, duplicate removal, ranking *)

\* a key that is lower-cased and not trimmed
DedupKeyNoStrip(paper) == Lower(paper.title)
\* paper.get('title', '').lower().strip()
DedupKey(paper) == Strip(Lower(paper.title))

RECURSIVE Dedup(_, _, _)
Dedup(papers, seen_titles, unique) ==
    IF papers = <<>> THEN unique
    ELSE LET paper == Head(papers)
             title_lower == DedupKey(paper)
         IN  IF title_lower # <<>> /\ title_lower \notin seen_titles
             THEN Dedup(Tail(papers), seen_titles \cup {title_lower}, Append(unique, paper))
             ELSE Dedup(Tail(papers), seen_titles, unique)

\* a sort that puts a record before the earlier records of equal count
RECURSIVE InsertUnstable(_, _)
InsertUnstable(sorted, paper) ==
    IF sorted = <<>> THEN <<paper>>
    ELSE IF Head(sorted).citation_count > paper.citation_count
         THEN <<Head(sorted)>> \o InsertUnstable(Tail(sorted), paper)
         ELSE <<paper>> \o sorted

\* where list.sort(key=citation_count, reverse=True) puts a record among the
\* records before it: after every record that does not rank lower
RECURSIVE InsertRanked(_, _)
InsertRanked(sorted, paper) ==
    IF sorted = <<>> THEN <<paper>>
    ELSE IF Head(sorted).citation_count >= paper.citation_count
         THEN <<Head(sorted)>> \o InsertRanked(Tail(sorted), paper)
         ELSE <<paper>> \o sorted

RECURSIVE SortByCitations(_, _)
SortByCitations(papers, sorted) ==
    IF papers = <<>> THEN sorted
    ELSE SortByCitations(Tail(papers), InsertRanked(sorted, Head(papers)))

\* how a returned call of search_papers_api ended
ApiEnded(f) ==
    IF f.fault THEN "fault"
    ELSE IF \E i \in 1..Len(f.trace) : f.trace[i].ev = "error" THEN "exhausted"
    ELSE IF f.trace = <<>> THEN "no_query"
    ELSE "answered"

----------------------------------------------------------------------------
(* main: the year filter, the saved list, the CSV export *)

\* a year test with exclusive bounds
InYearRangeExclusive(paper, range) ==
    /\ paper.year.kind = "int"
    /\ range[1] < paper.year.v
    /\ paper.year.v < range[2]

\* paper['year'] != sentinel and isinstance(paper['year'], int)
\*     and year_range[0] <= paper['year'] <= year_range[1]
InYearRange(paper, range) ==
    /\ paper.year # YearUnknown
    /\ paper.year.kind = "int"
    /\ range[1] <= paper.year.v
    /\ paper.year.v <= range[2]

RECURSIVE Filter(_, _)
Filter(papers, range) ==
    IF papers = <<>> THEN <<>>
    ELSE IF InYearRange(Head(papers), range)
         THEN <<Head(papers)>> \o Filter(Tail(papers), range)
         ELSE Filter(Tail(papers), range)

\* if results: results = [the records in the year range]
YearFiltered(papers, range) == IF papers # <<>> THEN Filter(papers, range) ELSE papers

ExistingTitles(saved) == {saved[i].title : i \in 1..Len(saved)}

\* a save that puts the record in front
SavedAfterSavePrepended(saved, paper) ==
    IF paper.title \notin ExistingTitles(saved) THEN <<paper>> \o saved ELSE saved
\* the individual save button: append unless the title is already saved
SavedAfterSave(saved, paper) ==
    IF paper.title \notin ExistingTitles(saved) THEN Append(saved, paper) ELSE saved

\* new_papers of the bulk save: existing_titles is computed once, before the loop
RECURSIVE NewPapers(_, _)
NewPapers(papers, existing_titles) ==
    IF papers = <<>> THEN <<>>
    ELSE IF Head(papers).title \notin existing_titles
         THEN <<Head(papers)>> \o NewPapers(Tail(papers), existing_titles)
         ELSE NewPapers(Tail(papers), existing_titles)

SavedAfterSaveAll(saved, papers) == saved \o NewPapers(papers, ExistingTitles(saved))

CsvHeaders ==
    <<"No.", "title", "authors", "year", "venue", "citations", "abstract", "URL",
      "APA", "search_query", "search_datetime", "source">>

NoExport == <<>>

\* paper.get(key, default)
Get(paper, key, default) == IF key \in DOMAIN paper THEN paper[key] ELSE default

AuthorsUnknown == "authors unknown"
VenueUnknown == "venue unknown"
AbstractMissing == "no abstract"

\* format_apa_citation: the parts of the citation, in the order they are
\* written: authors, (year), title, *venue*, and the URL after a space
FormatApaCitation(paper) ==
    LET url == Get(paper, "url", "")
    IN  <<Get(paper, "authors", AuthorsUnknown),
          <<"(", Get(paper, "year", YearUnknown), ")">>,
          Get(paper, "title", TitleUnknown),
          <<"*", Get(paper, "venue", VenueUnknown), "*">>,
          IF url # "" THEN <<" ", url>> ELSE <<>> >>

\* the data row of the i-th paper
CsvRowZeroBased(i, paper, search_query, search_datetime) ==
    <<i - 1,
      Get(paper, "title", TitleUnknown),
      Get(paper, "authors", AuthorsUnknown),
      Get(paper, "year", YearUnknown),
      Get(paper, "venue", VenueUnknown),
      Get(paper, "citation_count", 0),
      Get(paper, "abstract", AbstractMissing),
      Get(paper, "url", ""),
      FormatApaCitation(paper),
      search_query,
      search_datetime,
      Get(paper, "source", "Unknown")>>

CsvRow(i, paper, search_query, search_datetime) ==
    <<i,
      Get(paper, "title", TitleUnknown),
      Get(paper, "authors", AuthorsUnknown),
      Get(paper, "year", YearUnknown),
      Get(paper, "venue", VenueUnknown),
      Get(paper, "citation_count", 0),
      Get(paper, "abstract", AbstractMissing),
      Get(paper, "url", ""),
      FormatApaCitation(paper),
      search_query,
      search_datetime,
      Get(paper, "source", "Unknown")>>

\* create_csv_data: the header row, then one numbered row per record;
\* search_datetime is the reading of the clock the call takes
CreateCsvData(papers, search_query, search_datetime) ==
    <<CsvHeaders>>
        \o [i \in 1..Len(papers) |-> CsvRow(i, papers[i], search_query, search_datetime)]

\* readings of datetime.now()
Clock == {"2024-01-01 09:00:00", "2024-01-01 09:00:01"}

----------------------------------------------------------------------------
(* SpecFetch: search_papers_api called on its own *)

FetchQueries == {"", "q"}

FetchItems ==
    RawPapers({T_AI, T_none}, {1}, {IntYear(2020), NoYear},
              {<<"learning">>, <<"sports">>})
        \cup {Malformed}

FetchOutcomes ==
    {RateLimited, ConnectionFailure} \cup {Answer(d) : d \in SeqsUpTo(FetchItems, MaxResp)}

InitCommon ==
    /\ api = ApiIdle
    /\ pc = "idle"
    /\ year_range = <<2020, 2021>>
    /\ fetched = <<>>
    /\ results = <<>>
    /\ saved_papers = <<>>
    /\ last_search_query = ""
    /\ op = "init"
    /\ exported = NoExport
    /\ cpc = "idle"
    /\ cquery = ""
    /\ semantic_papers = <<>>
    /\ source_a = "none"
    /\ google = GsNotCalled
    /\ all_papers = <<>>
    /\ unique_papers = <<>>
    /\ combined = <<>>

NoCall ==
    /\ fn_pc = "idle"
    /\ fn_args = <<>>
    /\ fn_value = <<>>

InitFetch == InitCommon /\ NoCall /\ GOOGLE_SCHOLAR_AVAILABLE = TRUE

\* search_papers_api(query) is called
FetchCall ==
    /\ api.pc \in {"idle", "returned"}
    /\ \E query \in FetchQueries : api' = ApiCall(query)
    /\ UNCHANGED <<callVars, sessionVars, combinedVars>>

\* the remote answers the pending request and the iteration runs
FetchAttempt ==
    /\ api.pc = "request"
    /\ \E o \in FetchOutcomes : api' = ApiStep(api, o)
    /\ UNCHANGED <<callVars, sessionVars, combinedVars>>

NextFetch == FetchCall \/ FetchAttempt

SpecFetch == InitFetch /\ [][NextFetch]_vars

\* requests.get(..., timeout=15) answers or raises: a pending request is
\* always followed by the rest of its iteration
FairSpecFetch == SpecFetch /\ WF_vars(FetchAttempt)

----------------------------------------------------------------------------
(* SpecCombined: search_combined called on its own *)

CombinedCites == {3, 10}

\* what the REST backend answers with
CombinedItems ==
    RawPapers({T_AI, T_b, T_blank}, CombinedCites, {IntYear(2020)}, {<<"learning">>})
        \cup RawPapers({T_b}, {3}, {IntYear(2020)}, {<<"sports">>})
        \cup {Malformed}

\* what the scrape backend streams
CombinedStreamItems ==
    RawPapers({T_ai_sp, T_b, T_c}, CombinedCites, {StrYear(2020)}, {<<"learning">>})
        \cup RawPapers({T_b}, {3}, {NoYear}, {<<"sports">>})
        \cup {BadItem}

\* the answers of the remote to the requests of one call: up to two failures,
\* then any answer
ApiRuns(items) ==
    {<<>>} \cup
    {fails \o <<o>> :
        fails \in SeqsUpTo({RateLimited, ConnectionFailure}, max_retries - 1),
        o \in {RateLimited, ConnectionFailure}
                 \cup {Answer(d) : d \in SeqsUpTo(items, MaxResp)}}

StreamEndings == {"end", "blocked", "error"}

InitCombined == InitCommon /\ NoCall /\ GOOGLE_SCHOLAR_AVAILABLE \in BOOLEAN

\* the tail of search_combined: duplicate removal, then ranking
Merged(papers) == SortByCitations(Dedup(papers, {}, <<>>), <<>>)

\* search_combined(query) is called and calls search_papers_api
CombinedStart ==
    /\ cpc \in {"idle", "done"}
    /\ \E query \in FetchQueries :
          /\ cquery' = query
          /\ api' = ApiCall(query)
    /\ cpc' = "api"
    /\ semantic_papers' = <<>>
    /\ source_a' = "none"
    /\ google' = GsNotCalled
    /\ all_papers' = <<>>
    /\ unique_papers' = <<>>
    /\ combined' = <<>>
    /\ UNCHANGED <<callVars, sessionVars, GOOGLE_SCHOLAR_AVAILABLE>>

\* search_papers_api returns; without the scrape backend search_combined
\* goes on to its end
CombinedApi ==
    /\ cpc = "api"
    /\ \E outcomes \in ApiRuns(CombinedItems) :
          LET f == RunApi(api, outcomes)
          IN  /\ f.pc = "returned"
              /\ Len(f.answers) = Len(outcomes)
              /\ semantic_papers' = f.ret
              /\ source_a' = ApiEnded(f)
              /\ all_papers' = f.ret
              /\ IF GOOGLE_SCHOLAR_AVAILABLE
                 THEN /\ cpc' = "google"
                      /\ UNCHANGED <<unique_papers, combined>>
                 ELSE /\ cpc' = "done"
                      /\ unique_papers' = Dedup(f.ret, {}, <<>>)
                      /\ combined' = Merged(f.ret)
    /\ api' = ApiIdle
    /\ UNCHANGED <<callVars, sessionVars, cquery, GOOGLE_SCHOLAR_AVAILABLE, google>>

\* search_google_scholar returns and search_combined runs to its end
CombinedGoogle ==
    /\ cpc = "google"
    /\ \E items \in SeqsUpTo(CombinedStreamItems, MaxStream), ending \in StreamEndings :
          LET g == SearchGoogleScholar(cquery, Limit, items, ending)
          IN  /\ google' = g
              /\ all_papers' = semantic_papers \o g.ret
              /\ unique_papers' = Dedup(semantic_papers \o g.ret, {}, <<>>)
              /\ combined' = Merged(semantic_papers \o g.ret)
    /\ cpc' = "done"
    /\ UNCHANGED <<callVars, sessionVars, api, cquery, GOOGLE_SCHOLAR_AVAILABLE, semantic_papers,
                   source_a>>

NextCombined == CombinedStart \/ CombinedApi \/ CombinedGoogle

SpecCombined == InitCombined /\ [][NextCombined]_vars

----------------------------------------------------------------------------
(* Spec: a session of main().  A script run fetches, filters and presents;   *)
(* the buttons act on the presented list.  st.rerun() starts the next run,    *)
(* which searches again because the query is still in the text input.        *)

SessionItems ==
    RawPapers({T_AI, T_ai_sp}, {3, 10}, {IntYear(2020), IntYear(2022), NoYear},
              {<<"learning">>})
        \cup RawPapers({T_AI}, {3}, {IntYear(2020)}, {<<"sports">>})
        \cup {Malformed}

YearRanges == {<<2019, 2020>>, <<2020, 2021>>}

SessionQuery == "q"

\* the lists search_papers_api can return to main: its return value over
\* every run of answers of the remote
SessionReturns ==
    LET calls == {RunApi(ApiCall(SessionQuery), outcomes) :
                     outcomes \in ApiRuns(SessionItems)}
    IN  {f.ret : f \in {c \in calls : c.pc = "returned"}}

Init == InitCommon /\ NoCall /\ GOOGLE_SCHOLAR_AVAILABLE = TRUE

\* the script run starts over: its locals are fresh
Rerun ==
    /\ pc' = "searching"
    /\ fetched' = <<>>
    /\ results' = <<>>
    /\ exported' = NoExport

\* the user submits a query, with the year slider set
SearchStart ==
    /\ pc \in {"idle", "shown"}
    /\ \E range \in YearRanges : year_range' = range
    /\ Rerun
    /\ last_search_query' = SessionQuery
    /\ op' = "search"
    /\ UNCHANGED <<callVars, api, saved_papers, combinedVars>>

\* search_papers_api returns; the year filter runs; the list is presented
SearchDone ==
    /\ pc = "searching"
    /\ \E ret \in SessionReturns :
          /\ fetched' = ret
          /\ results' = YearFiltered(ret, year_range)
    /\ pc' = "shown"
    /\ op' = "presented"
    /\ UNCHANGED <<callVars, api, year_range, saved_papers, last_search_query, exported,
                   combinedVars>>

\* the save button of the index-th presented record
Save ==
    /\ pc = "shown"
    /\ \E index \in 1..Len(results) :
          LET paper == results[index]
          IN  IF paper.title \notin ExistingTitles(saved_papers)
              THEN /\ Len(saved_papers) < MaxSaved
                   /\ saved_papers' = SavedAfterSave(saved_papers, paper)
                   /\ op' = "save"
                   /\ Rerun
              ELSE /\ op' = "save_refused"
                   /\ UNCHANGED <<pc, fetched, results, exported, saved_papers>>
    /\ UNCHANGED <<callVars, api, year_range, last_search_query, combinedVars>>

\* the button that saves all presented records
SaveAll ==
    /\ pc = "shown"
    /\ results # <<>>
    /\ Len(SavedAfterSaveAll(saved_papers, results)) <= MaxSaved
    /\ saved_papers' = SavedAfterSaveAll(saved_papers, results)
    /\ op' = "save_all"
    /\ Rerun
    /\ UNCHANGED <<callVars, api, year_range, last_search_query, combinedVars>>

\* the button that clears the saved list
ClearSaved ==
    /\ pc = "shown"
    /\ saved_papers # <<>>
    /\ saved_papers' = <<>>
    /\ op' = "clear"
    /\ Rerun
    /\ UNCHANGED <<callVars, api, year_range, last_search_query, combinedVars>>

\* the CSV download of the saved list
ExportCsv ==
    /\ pc = "shown"
    /\ saved_papers # <<>>
    /\ \E search_datetime \in Clock :
           exported' = CreateCsvData(saved_papers, last_search_query, search_datetime)
    /\ op' = "export"
    /\ UNCHANGED <<callVars, api, pc, year_range, fetched, results, saved_papers,
                   last_search_query, combinedVars>>

Next == SearchStart \/ SearchDone \/ Save \/ SaveAll \/ ClearSaved \/ ExportCsv

Spec == Init /\ [][Next]_vars

----------------------------------------------------------------------------
(* SpecScholar: search_google_scholar called on its own, once for every     *)
(* stream of a bounded set                                                  *)

MaxItems == 5       \* items in the result stream

ScholarItems ==
    RawPapers({T_ai_sp, T_c}, {3}, {StrYear(2020)}, {<<"learning">>})
        \cup RawPapers({T_b}, {3}, {NoYear}, {<<"sports">>})
        \cup {BadItem}

ScholarCalls ==
    [query : FetchQueries, limit : 1..Limit, items : SeqsUpTo(ScholarItems, MaxItems),
     ending : StreamEndings]

InitScholar ==
    /\ InitCommon
    /\ GOOGLE_SCHOLAR_AVAILABLE \in BOOLEAN
    /\ fn_pc = "called"
    /\ fn_args \in ScholarCalls
    /\ fn_value = <<>>

ScholarReturn ==
    /\ fn_pc = "called"
    /\ fn_pc' = "returned"
    /\ fn_value' =
          IF GOOGLE_SCHOLAR_AVAILABLE
          THEN SearchGoogleScholar(fn_args.query, fn_args.limit, fn_args.items,
                                   fn_args.ending)
          ELSE [GsNotCalled EXCEPT !.ended = "unavailable"]
    /\ UNCHANGED <<api, sessionVars, combinedVars, fn_args>>

NextScholar == ScholarReturn

SpecScholar == InitScholar /\ [][NextScholar]_vars

----------------------------------------------------------------------------
(* parse_search_query.  A query is a sequence of one-character strings; the *)
(* placeholder __QUOTED_i__ that stands for the i-th phrase is one element  *)
(* of the sequence, which no character of a query equals                    *)

DQ == "\""

Placeholders ==
    <<"__QUOTED_0__", "__QUOTED_1__", "__QUOTED_2__", "__QUOTED_3__", "__QUOTED_4__">>

Placeholder(i) == Placeholders[i + 1]

\* word.startswith('__QUOTED_')
StartsWithQuoted(word) ==
    word # <<>> /\ \E i \in 1..Len(Placeholders) : word[1] = Placeholders[i]

\* the position of the first '"' of s at or after position from (0 if none)
NextQuote(s, from) ==
    LET at == {k \in from..Len(s) : s[k] = DQ}
    IN  IF at = {} THEN 0 ELSE CHOOSE k \in at : \A j \in at : k <= j

\* re.findall(r'"([^"]*)"', s): the scan restarts after each closing quote
RECURSIVE FindAll(_, _)
FindAll(s, from) ==
    LET open == NextQuote(s, from)
        close == IF open = 0 THEN 0 ELSE NextQuote(s, open + 1)
    IN  IF close = 0 THEN <<>>
        ELSE <<SubSeq(s, open + 1, close - 1)>> \o FindAll(s, close + 1)

\* str.replace(old, new): every occurrence of old, left to right, not
\* overlapping; new is one element
RECURSIVE Replace(_, _, _)
Replace(s, old, new) ==
    IF Len(s) < Len(old) THEN s
    ELSE IF SubSeq(s, 1, Len(old)) = old
    THEN <<new>> \o Replace(SubSeq(s, Len(old) + 1, Len(s)), old, new)
    ELSE <<Head(s)>> \o Replace(Tail(s), old, new)

\* the loop that puts a placeholder in the place of each quoted phrase
RECURSIVE ReplaceQuoted(_, _, _)
ReplaceQuoted(temp_query, quoted_phrases, i) ==
    IF i >= Len(quoted_phrases) THEN temp_query
    ELSE ReplaceQuoted(Replace(temp_query, <<DQ>> \o quoted_phrases[i + 1] \o <<DQ>>,
                               Placeholder(i)),
                       quoted_phrases, i + 1)

\* str.split(): the maximal runs without whitespace
RECURSIVE Split(_, _)
Split(s, word) ==
    IF s = <<>> THEN IF word = <<>> THEN <<>> ELSE <<word>>
    ELSE IF IsSpace(Head(s))
    THEN (IF word = <<>> THEN <<>> ELSE <<word>>) \o Split(Tail(s), <<>>)
    ELSE Split(Tail(s), Append(word, Head(s)))

\* f'"{phrase.strip()}"'
QuotedPartVerbatim(phrase) == <<DQ>> \o phrase \o <<DQ>>

QuotedPart(phrase) == <<DQ>> \o Strip(phrase) \o <<DQ>>

RECURSIVE Join(_)
Join(parts) ==
    IF parts = <<>> THEN <<>>
    ELSE IF Len(parts) = 1 THEN parts[1]
    ELSE parts[1] \o <<" ">> \o Join(Tail(parts))

ParseSearchQuery(query) ==
    IF query = <<>>
    THEN [quoted_phrases |-> <<>>, remaining_words |-> <<>>, query_parts |-> <<>>,
          ret |-> <<>>]
    ELSE LET quoted_phrases == FindAll(query, 1)
             temp_query == ReplaceQuoted(query, quoted_phrases, 0)
             remaining_words ==
                 SelectSeq(Split(temp_query, <<>>), LAMBDA word : ~StartsWithQuoted(word))
             phrases == SelectSeq(quoted_phrases, LAMBDA phrase : Strip(phrase) # <<>>)
             words == SelectSeq(remaining_words, LAMBDA word : Strip(word) # <<>>)
             query_parts ==
                 [i \in 1..Len(phrases) |-> QuotedPart(phrases[i])]
                     \o [i \in 1..Len(words) |-> Strip(words[i])]
         IN  [quoted_phrases |-> quoted_phrases, remaining_words |-> remaining_words,
              query_parts |-> query_parts, ret |-> Join(query_parts)]

----------------------------------------------------------------------------
(* SpecParse: parse_search_query called once on every query of a bounded    *)
(* set                                                                      *)

MaxQuery == 6       \* characters in a query

QueryChars == {DQ, " ", "a", "b"}

InitParse ==
    /\ InitCommon
    /\ GOOGLE_SCHOLAR_AVAILABLE = TRUE
    /\ fn_pc = "called"
    /\ fn_args \in SeqsUpTo(QueryChars, MaxQuery)
    /\ fn_value = <<>>

ParseReturn ==
    /\ fn_pc = "called"
    /\ fn_pc' = "returned"
    /\ fn_value' = ParseSearchQuery(fn_args)
    /\ UNCHANGED <<api, sessionVars, combinedVars, fn_args>>

NextParse == ParseReturn

SpecParse == InitParse /\ [][NextParse]_vars

----------------------------------------------------------------------------
(* SpecCsv: create_csv_data called once on every list of a bounded set      *)

MaxCsvPapers == 3   \* records in an exported list

CsvPapers ==
    { [title |-> T_AI, authors |-> "Ng, A., Li, F.", year |-> IntYear(2020),
       venue |-> "Nature", citation_count |-> 10, abstract |-> "learning",
       url |-> "http://x", source |-> "Semantic Scholar"],
      [title |-> T_b, authors |-> "Roe, R.", year |-> YearUnknown,
       venue |-> "Proceedings of ICML Workshop", citation_count |-> 0,
       abstract |-> "teaching", url |-> "", source |-> "Google Scholar"],
      [title |-> T_c] }

CsvCalls ==
    [papers : SeqsUpTo(CsvPapers, MaxCsvPapers), search_query : FetchQueries,
     search_datetime : Clock]

InitCsv ==
    /\ InitCommon
    /\ GOOGLE_SCHOLAR_AVAILABLE = TRUE
    /\ fn_pc = "called"
    /\ fn_args \in CsvCalls
    /\ fn_value = <<>>

CsvReturn ==
    /\ fn_pc = "called"
    /\ fn_pc' = "returned"
    /\ fn_value' = CreateCsvData(fn_args.papers, fn_args.search_query,
                                 fn_args.search_datetime)
    /\ UNCHANGED <<api, sessionVars, combinedVars, fn_args>>

NextCsv == CsvReturn

SpecCsv == InitCsv /\ [][NextCsv]_vars

----------------------------------------------------------------------------
(* format_bibtex_citation.  Titles, authors, venues and abstracts are        *)
(* sequences of one-character strings                                       *)

UnknownTitle ==
    <<"U", "n", "k", "n", "o", "w", "n", " ", "T", "i", "t", "l", "e">>
UnknownAuthor ==
    <<"U", "n", "k", "n", "o", "w", "n", " ", "A", "u", "t", "h", "o", "r">>
UnknownVenue ==
    <<"U", "n", "k", "n", "o", "w", "n", " ", "V", "e", "n", "u", "e">>
Unknown == <<"U", "n", "k", "n", "o", "w", "n">>

\* str.split(sep): the pieces between the separators, the empty ones kept
RECURSIVE SplitOn(_, _, _)
SplitOn(s, sep, piece) ==
    IF s = <<>> THEN <<piece>>
    ELSE IF Head(s) = sep THEN <<piece>> \o SplitOn(Tail(s), sep, <<>>)
    ELSE SplitOn(Tail(s), sep, Append(piece, Head(s)))

\* .replace(' ', '').replace(',', '')
Compact(s) == SelectSeq(s, LAMBDA c : c \notin {" ", ","})

\* sub in s
Contains(s, sub) ==
    \E k \in 1..(Len(s) - Len(sub) + 1) : SubSeq(s, k, k + Len(sub) - 1) = sub

ProceedingsWords ==
    {<<"c", "o", "n", "f", "e", "r", "e", "n", "c", "e">>,
     <<"p", "r", "o", "c", "e", "e", "d", "i", "n", "g", "s">>,
     <<"w", "o", "r", "k", "s", "h", "o", "p">>,
     <<"s", "y", "m", "p", "o", "s", "i", "u", "m">>}

JournalWords ==
    {<<"j", "o", "u", "r", "n", "a", "l">>,
     <<"t", "r", "a", "n", "s", "a", "c", "t", "i", "o", "n", "s">>,
     <<"l", "e", "t", "t", "e", "r", "s">>}

AnyIn(words, venue_lower) == \E word \in words : Contains(venue_lower, word)

\* the entry type and the name of the field that holds the venue
ClassifyJournalFirst(venue_lower) ==
    IF AnyIn(JournalWords, venue_lower)
    THEN [entry_type |-> "article", venue_field |-> "journal"]
    ELSE IF AnyIn(ProceedingsWords, venue_lower)
    THEN [entry_type |-> "inproceedings", venue_field |-> "booktitle"]
    ELSE [entry_type |-> "misc", venue_field |-> "howpublished"]

Classify(venue_lower) ==
    IF AnyIn(ProceedingsWords, venue_lower)
    THEN [entry_type |-> "inproceedings", venue_field |-> "booktitle"]
    ELSE IF AnyIn(JournalWords, venue_lower)
    THEN [entry_type |-> "article", venue_field |-> "journal"]
    ELSE [entry_type |-> "misc", venue_field |-> "howpublished"]

\* abstract.replace('{', '\\{').replace('}', '\\}').replace('%', '\\%')
RECURSIVE CleanAbstract(_)
CleanAbstract(abstract) ==
    IF abstract = <<>> THEN <<>>
    ELSE (IF Head(abstract) \in {"{", "}", "%"} THEN <<"\\", Head(abstract)>>
          ELSE <<Head(abstract)>>) \o CleanAbstract(Tail(abstract))

AbstractNone == <<"-">>             \* the placeholder for a missing abstract

\* format_bibtex_citation(paper, index).  raised: the key could not be
\* built (IndexError: the authors before the first comma, or the title, hold
\* no word).  url and abstract are <<>> when the entry has no such field.
FormatBibtexCitation(paper, index) ==
    LET title == Get(paper, "title", UnknownTitle)
        authors == Get(paper, "authors", UnknownAuthor)
        year == Get(paper, "year", YearUnknown)
        venue == Get(paper, "venue", UnknownVenue)
        url == Get(paper, "url", "")
        abstract == Get(paper, "abstract", <<>>)
        author_words == Split(Head(SplitOn(authors, ",", <<>>)), <<>>)
        title_words == Split(title, <<>>)
        venue_lower == IF venue # UnknownVenue THEN Lower(venue) ELSE <<>>
        kind == Classify(venue_lower)
    IN  IF \/ authors # UnknownAuthor /\ author_words = <<>>
           \/ title # UnknownTitle /\ title_words = <<>>
        THEN [raised |-> TRUE]
        ELSE [raised |-> FALSE,
              entry_type |-> kind.entry_type,
              bibtex_key |->
                  <<Compact(IF authors # UnknownAuthor
                            THEN author_words[Len(author_words)] ELSE Unknown),
                    year,
                    Compact(IF title # UnknownTitle THEN title_words[1] ELSE Unknown)>>,
              title |-> title,
              author |-> IF authors # UnknownAuthor
                         THEN LET author_list == SplitOn(authors, ",", <<>>)
                              IN  [i \in 1..Len(author_list) |-> Strip(author_list[i])]
                         ELSE <<UnknownAuthor>>,
              venue_field |-> kind.venue_field,
              venue |-> venue,
              year |-> year,
              url |-> url,
              abstract |-> IF abstract # <<>> /\ abstract # AbstractNone /\ Len(abstract) > 10
                           THEN CleanAbstract(abstract) ELSE <<>>]

----------------------------------------------------------------------------
(* SpecBibtex: format_bibtex_citation called once on every record of a      *)
(* bounded set                                                              *)

MaxVenueWords == 3  \* parts a venue is made of

VenueParts ==
    {<<"P", "r", "o", "c", "e", "e", "d", "i", "n", "g", "s">>,
     <<"W", "o", "r", "k", "s", "h", "o", "p">>,
     <<"C", "o", "n", "f", "e", "r", "e", "n", "c", "e">>,
     <<"S", "y", "m", "p", "o", "s", "i", "u", "m">>,
     <<"J", "o", "u", "r", "n", "a", "l">>,
     <<"T", "r", "a", "n", "s", "a", "c", "t", "i", "o", "n", "s">>,
     <<"N", "e", "w", "s", "l", "e", "t", "t", "e", "r", "s">>,
     <<"o", "f", " ", "I", "C", "M", "L">>}

Venues == {Join(parts) : parts \in SeqsUpTo(VenueParts, MaxVenueWords)}

AuthorsNgLi == <<"N", "g", ",", " ", "A", ".", ",", " ", "L", "i", ",", " ", "F", ".">>

LongAbstract == <<"a", " ", "{", "b", "}", " ", "5", "0", "%", " ", "c", "d">>

\* the fields of a record other than its venue
BibRecords ==
    { [title |-> T_AI, authors |-> AuthorsNgLi, year |-> IntYear(2020),
       url |-> "http://x", abstract |-> LongAbstract],
      [title |-> T_b, abstract |-> AbstractNone],
      [title |-> T_blank, authors |-> AuthorsNgLi, year |-> YearUnknown] }

BibPapers ==
    BibRecords \cup {paper @@ [venue |-> venue] :
                        paper \in BibRecords, venue \in Venues \cup {UnknownVenue}}

InitBibtex ==
    /\ InitCommon
    /\ GOOGLE_SCHOLAR_AVAILABLE = TRUE
    /\ fn_pc = "called"
    /\ fn_args \in [paper : BibPapers, index : {1}]
    /\ fn_value = <<>>

BibtexReturn ==
    /\ fn_pc = "called"
    /\ fn_pc' = "returned"
    /\ fn_value' = FormatBibtexCitation(fn_args.paper, fn_args.index)
    /\ UNCHANGED <<api, sessionVars, combinedVars, fn_args>>

NextBibtex == BibtexReturn

SpecBibtex == InitBibtex /\ [][NextBibtex]_vars

----------------------------------------------------------------------------
(* Claims about search_combined *)

\* the trimmed, lower-cased title
NormTitle(paper) == Strip(Lower(paper.title))

Occurs(paper, papers) == \E i \in 1..Len(papers) : papers[i] = paper

\* no earlier record of the list has the title of the i-th, normalized
FirstOfTitle(papers, i) ==
    \A j \in 1..(i - 1) : NormTitle(papers[j]) # NormTitle(papers[i])

SourceAFailed == source_a \in {"exhausted", "fault"}
SourceBFailed == google.ended \in {"blocked", "error"}

\* C4: when one source fails (retries exhausted, blocked, an error), the other
\* is still queried and each record it returned whose title is no duplicate is
\* in the merged result; search_combined always returns
C4_OtherSourceContributes ==
    (cpc = "done" /\ GOOGLE_SCHOLAR_AVAILABLE /\ cquery # "") =>
        /\ source_a # "none"
        /\ google.queried
        /\ SourceAFailed =>
              \A i \in 1..Len(google.ret) :
                  FirstOfTitle(google.ret, i) => Occurs(google.ret[i], combined)
        /\ SourceBFailed =>
              \A i \in 1..Len(semantic_papers) :
                  FirstOfTitle(semantic_papers, i) => Occurs(semantic_papers[i], combined)

\* the part of C4 that holds of the code: the same, for the records whose
\* normalized title is not empty
SourceIsolation ==
    (cpc = "done" /\ GOOGLE_SCHOLAR_AVAILABLE /\ cquery # "") =>
        /\ source_a # "none"
        /\ google.queried
        /\ SourceAFailed =>
              \A i \in 1..Len(google.ret) :
                  (FirstOfTitle(google.ret, i) /\ NormTitle(google.ret[i]) # <<>>)
                      => Occurs(google.ret[i], combined)
        /\ SourceBFailed =>
              \A i \in 1..Len(semantic_papers) :
                  (FirstOfTitle(semantic_papers, i) /\ NormTitle(semantic_papers[i]) # <<>>)
                      => Occurs(semantic_papers[i], combined)

WithTitle(papers, key) == {i \in 1..Len(papers) : NormTitle(papers[i]) = key}
Min(S) == CHOOSE i \in S : \A j \in S : i <= j
NonEmptyTitles(papers) == {NormTitle(papers[i]) : i \in 1..Len(papers)} \ {<<>>}

\* C5: the duplicate removal keeps, for each non-empty normalized title,
\* exactly one record: the first with that title when source A's records are
\* taken before source B's; so two kept records never share a non-empty
\* normalized title and a cross-source duplicate keeps A's record
C5_FirstSeenWins ==
    cpc = "done" =>
        /\ all_papers = semantic_papers \o google.ret
        /\ \A key \in NonEmptyTitles(all_papers) :
              /\ Cardinality(WithTitle(unique_papers, key)) = 1
              /\ unique_papers[Min(WithTitle(unique_papers, key))]
                    = all_papers[Min(WithTitle(all_papers, key))]
        /\ \A key \in NonEmptyTitles(semantic_papers) :
              LET kept == unique_papers[Min(WithTitle(unique_papers, key))]
                  first == semantic_papers[Min(WithTitle(semantic_papers, key))]
              IN  /\ kept.source = "Semantic Scholar"
                  /\ kept.citation_count = first.citation_count

\* 'AI' with 10 citations from A, 'ai ' with 3 from B: A's record is kept
C5_Witness ==
    /\ cpc = "done"
    /\ \E i \in 1..Len(semantic_papers), j \in 1..Len(google.ret) :
          /\ semantic_papers[i].title = T_AI
          /\ semantic_papers[i].citation_count = 10
          /\ google.ret[j].title = T_ai_sp
          /\ google.ret[j].citation_count = 3
          /\ unique_papers = <<semantic_papers[i]>>

\* C15: a record whose normalized title is empty passes the duplicate removal
\* unchanged: it is dropped neither as a duplicate of another such record nor
\* for its empty key, so the output holds as many empty-key records as the
\* input, and they are the same records in the same order.
EmptyKeyed(papers) == SelectSeq(papers, LAMBDA paper : NormTitle(paper) = <<>>)

C15_EmptyKeyPassesThrough ==
    cpc = "done" => EmptyKeyed(unique_papers) = EmptyKeyed(all_papers)

Position(papers, paper) == CHOOSE i \in 1..Len(papers) : papers[i] = paper

\* C6: the returned list holds the records of the deduplicated list in
\* non-increasing order of citation_count, records with equal citation_count
\* in the order they have in the deduplicated list
C6_StableRanking ==
    cpc = "done" =>
        /\ Len(combined) = Len(unique_papers)
        /\ \A i \in 1..Len(combined) : Occurs(combined[i], unique_papers)
        /\ \A i, j \in 1..Len(combined) :
              i < j =>
                /\ combined[i].citation_count >= combined[j].citation_count
                /\ combined[i].citation_count = combined[j].citation_count
                      => Position(unique_papers, combined[i])
                           < Position(unique_papers, combined[j])

\* two records with equal counts before one that outranks them
C6_Witness ==
    /\ cpc = "done"
    /\ Len(unique_papers) = 3
    /\ unique_papers[1].citation_count = 3
    /\ unique_papers[2].citation_count = 3
    /\ unique_papers[3].citation_count = 10
    /\ combined = <<unique_papers[3], unique_papers[1], unique_papers[2]>>

----------------------------------------------------------------------------
(* Claims about search_papers_api *)

Requests(f) == {i \in 1..Len(f.trace) : f.trace[i].ev = "request"}
Sleeps(f) == {i \in 1..Len(f.trace) : f.trace[i].ev = "sleep"}
Messages(f, about) ==
    {i \in 1..Len(f.trace) :
        f.trace[i].ev \in {"warning", "error"} /\ f.trace[i].about = about}
RetryWarnings(f, about) == {i \in 1..Len(f.trace) : f.trace[i] = Warning(about)}
FinalErrors(f, about) == {i \in 1..Len(f.trace) : f.trace[i] = Error(about)}
\* where the n-th request stands in the trace
RequestAt(f, n) == CHOOSE i \in 1..Len(f.trace) : f.trace[i] = Request(n)

AllRateLimited ==
    /\ api.pc = "returned"
    /\ api.answers = <<"rate_limit", "rate_limit", "rate_limit">>

\* the waits of a call with three rate-limited attempts: 2 s after the first
\* request, 4 s after the second, none after the third, and no fourth request
RateLimitWaits(f) ==
    /\ Cardinality(Requests(f)) = 3
    /\ f.trace[RequestAt(f, 1) + 2] = Sleep(2)
    /\ f.trace[RequestAt(f, 2) + 2] = Sleep(4)
    /\ RequestAt(f, 1) + 3 = RequestAt(f, 2)
    /\ RequestAt(f, 2) + 3 = RequestAt(f, 3)
    /\ \A i \in Sleeps(f) : i < RequestAt(f, 3)

\* C1, as stated: three rate-limited attempts return the empty list with
\* exactly one rate-limit message in total, after waits of 2 s and 4 s
C1_OneWarningInTotal ==
    AllRateLimited =>
        /\ api.ret = <<>>
        /\ RateLimitWaits(api)
        /\ Cardinality(Messages(api, "rate_limit")) = 1

\* C1, amended: three rate-limited attempts return the empty list after waits
\* of 2 s and 4 s, with one retry warning before each wait and exactly one
\* final rate-limit error after the third request (three messages in total)
C1_RateLimitExhausted ==
    AllRateLimited =>
        /\ api.ret = <<>>
        /\ RateLimitWaits(api)
        /\ api.trace = <<Sleep(1),
                         Request(1), Warning("rate_limit"), Sleep(2),
                         Request(2), Warning("rate_limit"), Sleep(4),
                         Request(3), Error("rate_limit")>>
        /\ Cardinality(RetryWarnings(api, "rate_limit")) = 2
        /\ Cardinality(FinalErrors(api, "rate_limit")) = 1

C1_Witness == AllRateLimited /\ api.ret = <<>>

FaultAfterParsed ==
    /\ api.pc = "returned"
    /\ api.fault
    /\ Len(api.papers) >= 1

\* C2: a response whose k-th record fails to process (k >= 1 records already
\* accepted) ends the fetch without another attempt, with a message, and the
\* fetch returns the records accepted before the fault
C2_PartialYieldKept ==
    FaultAfterParsed =>
        /\ api.ret = api.papers
        /\ Cardinality(Requests(api)) = Len(api.answers)
        /\ Messages(api, "search") # {}

\* the part of C2 the code keeps: the fault is not retried and is reported
C2_FaultNotRetried ==
    (api.pc = "returned" /\ api.fault) =>
        /\ api.trace[Len(api.trace)] = Error("search")
        /\ Cardinality(Requests(api)) = Len(api.answers)

\* every connectivity failure on attempt 1 or 2 is followed by a wait of 2 s
\* and then by the next request
ConnectionRetries(f) ==
    \A n \in 1..Len(f.answers) :
        (f.answers[n] = "connection" /\ n < 3) =>
            LET i == RequestAt(f, n)
            IN  /\ f.trace[i + 1] = Warning("connection")
                /\ f.trace[i + 2] = Sleep(2)
                /\ IF Len(f.trace) > i + 2
                   THEN f.trace[i + 3] = Request(n + 1)
                   ELSE f.pc = "request" /\ f.attempt = n

ConnectionExhausted(f) ==
    (Len(f.answers) = 3 /\ f.answers[3] = "connection") =>
        /\ f.pc = "returned"
        /\ f.ret = <<>>
        /\ f.trace[RequestAt(f, 3) + 1] = Error("connection")
        /\ \A i \in Sleeps(f) : i < RequestAt(f, 3)

BoundedRequests(f) ==
    /\ Cardinality(Requests(f)) <= 3
    /\ Len(f.answers) <= 3
    /\ Cardinality(Requests(f)) = Len(f.answers)

\* C3: whatever the remote answers, at most 3 requests are issued and the call
\* returns; a connectivity failure on attempt 1 or 2 is followed by a fixed
\* 2 s wait and a retry, and one on attempt 3 ends the call with the empty list
C3_BoundedRetry ==
    /\ [](BoundedRequests(api) /\ ConnectionRetries(api) /\ ConnectionExhausted(api))
    /\ (api.pc = "request") ~> (api.pc = "returned")

C3_Witness ==
    /\ api.pc = "returned"
    /\ api.answers = <<"connection", "rate_limit", "connection">>
    /\ api.ret = <<>>

----------------------------------------------------------------------------
(* Claims about the session *)

ResolvedInRange(paper, range) ==
    paper.year.kind = "int" /\ range[1] <= paper.year.v /\ paper.year.v <= range[2]

Qualifying(papers, range) == {i \in 1..Len(papers) : ResolvedInRange(papers[i], range)}

\* the k-th smallest element of a set of indices
Kth(S, k) == CHOOSE i \in S : Cardinality({j \in S : j <= i}) = k

\* C7: the year filter returns exactly the records whose year is an integer
\* within the inclusive bounds, in their original order; none with the
\* unknown-year sentinel, and no in-range record is left out
C7_YearFilterExact ==
    pc = "shown" =>
        /\ Len(results) = Cardinality(Qualifying(fetched, year_range))
        /\ \A k \in 1..Len(results) :
              results[k] = fetched[Kth(Qualifying(fetched, year_range), k)]
        /\ \A k \in 1..Len(results) : results[k].year # YearUnknown

\* a fetched list with an unknown year and a year on the upper bound
C7_Witness ==
    /\ pc = "shown"
    /\ Len(fetched) = 2
    /\ fetched[1].year = YearUnknown
    /\ fetched[2].year = IntYear(year_range[2])
    /\ results = <<fetched[2]>>

NoDuplicateTitles(papers) ==
    \A i, j \in 1..Len(papers) : i < j => NormTitle(papers[i]) # NormTitle(papers[j])

\* C8: no two saved records have the same normalized title
C8_SavedDeduplicated == NoDuplicateTitles(saved_papers)

\* the part of C8 that holds of the code: a save or a bulk save of records
\* whose exact titles are all saved already changes nothing
SaveIdempotent ==
    pc = "shown" =>
        /\ \A i \in 1..Len(results) :
              results[i].title \in ExistingTitles(saved_papers)
                  => SavedAfterSave(saved_papers, results[i]) = saved_papers
        /\ LET once == SavedAfterSaveAll(saved_papers, results)
           IN  SavedAfterSaveAll(once, results) = once

IsPrefix(s, t) == Len(s) <= Len(t) /\ SubSeq(t, 1, Len(s)) = s

\* C9: the saved list starts empty; a save or bulk save only appends whole
\* presented records to it, clearing empties it, and a search or an export
\* leaves it as it is
C9_SavedFrame ==
    /\ saved_papers = <<>>
    /\ [][CASE op' \in {"save", "save_all"} ->
                  /\ IsPrefix(saved_papers, saved_papers')
                  /\ \A i \in (Len(saved_papers) + 1)..Len(saved_papers') :
                        Occurs(saved_papers'[i], results)
             [] op' = "clear" -> saved_papers' = <<>>
             [] OTHER -> saved_papers' = saved_papers]_vars

\* a record saved after another one
C9_Witness ==
    /\ op = "save"
    /\ Len(saved_papers) = 2
    /\ saved_papers[1] # saved_papers[2]

RankedByCitations(papers) ==
    \A i, j \in 1..Len(papers) :
        i < j => papers[i].citation_count >= papers[j].citation_count

\* C10: the presented list is the year-filtered output of the merge (duplicate
\* removal, then ranking) of the fetched records: no two presented records
\* share a normalized title and the list is in non-increasing order of
\* citation_count
C10_PresentedIsMerged ==
    pc = "shown" =>
        /\ NoDuplicateTitles(results)
        /\ RankedByCitations(results)

\* what main presents instead: the year-filtered answer of the REST backend,
\* in the order received
PresentedIsFiltered ==
    pc = "shown" =>
        /\ results = YearFiltered(fetched, year_range)
        /\ ~google.queried
        /\ cpc = "idle"

----------------------------------------------------------------------------
(* Claims about search_google_scholar *)

ScholarSearched ==
    fn_pc = "returned" /\ GOOGLE_SCHOLAR_AVAILABLE /\ fn_args.query # ""

Accepted(item) == ~item.malformed /\ IsRelevant(item)

\* the records of the relevant items among the first n items of the stream
Gathered(items, n) ==
    LET kept == SelectSeq(SubSeq(items, 1, n), Accepted)
    IN  [i \in 1..Len(kept) |-> GsProcessedPaper(kept[i])]

\* the number of items among the first n that fail to parse
Errs(items, n) == Cardinality({j \in 1..n : items[j].malformed})

\* C11: when the result stream raises after k >= 0 records have been
\* gathered, the call stops, warns, and returns those k records rather than
\* an empty list.
C11_BlockedKeepsGathered ==
    (ScholarSearched /\ fn_value.ended \in {"blocked", "error"})
        => /\ fn_value.ret = Gathered(fn_args.items, fn_value.handled)
           /\ fn_value.warnings >= 1

\* the position of the 3rd item that fails to parse (0 when there is none)
ThirdError(items) ==
    LET at == {j \in 1..Len(items) : items[j].malformed /\ Errs(items, j) = max_timeout}
    IN  IF at = {} THEN 0 ELSE CHOOSE j \in at : TRUE

\* C16: an item that fails to parse is skipped and the items after it are
\* still processed while fewer than 3 parse errors have occurred; once the
\* 3rd has occurred no later item is accepted and the call returns, with a
\* warning, the records gathered before it; the error counter never exceeds 3
\* and the result never holds more than limit records.
C16_ParseErrorsBounded ==
    ScholarSearched =>
        LET items == fn_args.items
            g     == fn_value
        IN  /\ g.timeout_count <= max_timeout
            /\ g.timeout_count = Errs(items, g.handled)
            /\ Len(g.ret) <= fn_args.limit
            /\ \A j \in 1..Len(items) :
                    (/\ Errs(items, j - 1) < max_timeout
                     /\ Len(Gathered(items, j - 1)) < fn_args.limit) => g.handled >= j
            /\ g.timeout_count = max_timeout =>
                    /\ g.handled = ThirdError(items)
                    /\ g.ret = Gathered(items, ThirdError(items))
                    /\ g.warnings >= 1

----------------------------------------------------------------------------
(* Claims about parse_search_query *)

Quotes(q) == {k \in 1..Len(q) : q[k] = DQ}

\* the position of the n-th '"' of q
NthQuote(q, n) ==
    CHOOSE k \in Quotes(q) : Cardinality({j \in Quotes(q) : j <= k}) = n

\* the double-quoted substrings of q, in the order they appear: the text
\* between the 1st and 2nd quote, between the 3rd and 4th, ...
QuotedSubstrings(q) ==
    [n \in 1..(Cardinality(Quotes(q)) \div 2) |->
        SubSeq(q, NthQuote(q, 2 * n - 1) + 1, NthQuote(q, 2 * n) - 1)]

\* the built query starts with these parts, one space after each but the last
StartsWithParts(parsed, parts) ==
    /\ Len(parsed.query_parts) >= Len(parts)
    /\ SubSeq(parsed.query_parts, 1, Len(parts)) = parts
    /\ parsed.query_parts = parts \o SubSeq(parsed.query_parts, Len(parts) + 1,
                                            Len(parsed.query_parts))
    /\ parsed.ret = Join(parsed.query_parts)

\* C12 as stated: the phrases are the double-quoted substrings of q in order,
\* each with its interior kept character for character (none trimmed, dropped
\* or reordered), and they are in the built query re-wrapped in quotes.
C12_PhrasesVerbatim ==
    fn_pc = "returned" =>
        /\ fn_value.quoted_phrases = QuotedSubstrings(fn_args)
        /\ StartsWithParts(fn_value,
               [n \in 1..Len(QuotedSubstrings(fn_args)) |->
                   <<DQ>> \o QuotedSubstrings(fn_args)[n] \o <<DQ>>])

NotBlank(phrase) == \E k \in 1..Len(phrase) : ~IsSpace(phrase[k])

\* the phrase without its leading and trailing whitespace
Trimmed(phrase) ==
    LET inked == {k \in 1..Len(phrase) : ~IsSpace(phrase[k])}
    IN  SubSeq(phrase, CHOOSE k \in inked : \A j \in inked : k <= j,
                       CHOOSE k \in inked : \A j \in inked : k >= j)

\* C12, amended: the phrases extracted are the double-quoted substrings of q
\* in order, interiors kept; in the built query each phrase that is not empty
\* or all whitespace appears re-wrapped in quotes, in the same order, without
\* its leading and trailing whitespace and with its internal spaces kept; the
\* empty and all-whitespace phrases are left out.
C12_PhrasesTrimmed ==
    fn_pc = "returned" =>
        /\ fn_value.quoted_phrases = QuotedSubstrings(fn_args)
        /\ LET kept == SelectSeq(QuotedSubstrings(fn_args), NotBlank)
           IN  StartsWithParts(fn_value,
                   [n \in 1..Len(kept) |-> <<DQ>> \o Trimmed(kept[n]) \o <<DQ>>])

\* the query '" a"""' holds the phrases ' a' and '': the built query is '"a"'
C12_Witness ==
    /\ fn_pc = "returned"
    /\ fn_args = <<DQ, " ", "a", DQ, DQ, DQ>>
    /\ fn_value.quoted_phrases = << <<" ", "a">>, <<>> >>
    /\ fn_value.ret = <<DQ, "a", DQ>>

----------------------------------------------------------------------------
(* Claims about create_csv_data *)

\* the column (1-based) that holds each field of a record
Column ==
    [title |-> 2, authors |-> 3, year |-> 4, venue |-> 5, citation_count |-> 6,
     abstract |-> 7, url |-> 8, source |-> 12]

\* C13: for a list of n >= 0 records create_csv_data returns n + 1 rows: the
\* fixed header row of 12 columns, then one row per record in the list's
\* order, the i-th data row carrying the number i and the fields of the i-th
\* record.
C13_HeaderThenNumberedRows ==
    fn_pc = "returned" =>
        LET papers == fn_args.papers
            csv_data == fn_value
        IN  /\ Len(csv_data) = Len(papers) + 1
            /\ csv_data[1] = CsvHeaders
            /\ Len(csv_data[1]) = 12
            /\ \A i \in 1..Len(papers) :
                  /\ Len(csv_data[i + 1]) = 12
                  /\ csv_data[i + 1][1] = i
                  /\ \A key \in DOMAIN papers[i] :
                        csv_data[i + 1][Column[key]] = papers[i][key]
                  /\ csv_data[i + 1][10] = fn_args.search_query

\* three different records: four rows, numbered 1, 2, 3 after the header
C13_Witness ==
    /\ fn_pc = "returned"
    /\ Len(fn_args.papers) = 3
    /\ Cardinality({fn_args.papers[i].title : i \in 1..3}) = 3
    /\ Len(fn_value) = 4
    /\ fn_value[4][1] = 3
    /\ fn_value[4][2] = fn_args.papers[3].title

----------------------------------------------------------------------------
(* Claims about format_bibtex_citation *)

\* the word occurs in the text when letter case is ignored
Mentions(text, word) ==
    \E k \in 1..(Len(text) - Len(word) + 1) :
        \A j \in 1..Len(word) : LowerChar(text[k + j - 1]) = word[j]

OfProceedings(venue) == \E word \in ProceedingsWords : Mentions(venue, word)
OfJournal(venue) == \E word \in JournalWords : Mentions(venue, word)

====
